---- MODULE Spec2Model ----
(***************************************************************************)
(* Model of the resources API route handlers (app/api/routes.py).          *)
(*                                                                         *)
(* Four specifications share the module:                                   *)
(*   Spec        create_resource / update_resource with the search mirror  *)
(*   SpecVotes   update_votes / add_click as concurrent read-modify-write   *)
(*   SpecKeys    the /apikey issuance handler                              *)
(*   SpecSearch  search_results: filter expression and page size           *)
(*                                                                         *)
(* Python strings are sequences of one-character strings, so that lower()  *)
(* and strip() are computed and not assumed.                               *)
(***************************************************************************)
EXTENDS Integers, Sequences, FiniteSets, TLC

\* ------------------------------------------------------------------ bounds
MaxResources == 1      \* rows the resources table may hold
MaxFields == 2         \* keys in one PUT payload
MaxLangs == 1          \* length of a submitted languages list
MaxWorkers == 2        \* vote/click requests served at the same time
MaxCalls == 3          \* vote/click requests started in one run
MaxIssues == 4         \* POST /apikey calls in one run

\* ------------------------------------------------------- strings and JSON
UpperLetters == <<"A","B","C","D","E","F","G","H","I","J","K","L","M",
                  "N","O","P","Q","R","S","T","U","V","W","X","Y","Z">>
LowerLetters == <<"a","b","c","d","e","f","g","h","i","j","k","l","m",
                  "n","o","p","q","r","s","t","u","v","w","x","y","z">>

LowerChar(c) ==
  IF \E i \in DOMAIN UpperLetters : UpperLetters[i] = c
  THEN LowerLetters[CHOOSE i \in DOMAIN UpperLetters : UpperLetters[i] = c]
  ELSE c

\* str.lower()
Lower(s) == [i \in DOMAIN s |-> LowerChar(s[i])]

RECURSIVE LStrip(_)
LStrip(s) == IF s # <<>> /\ Head(s) = " " THEN LStrip(Tail(s)) ELSE s

RECURSIVE RStrip(_)
RStrip(s) ==
  IF s # <<>> /\ s[Len(s)] = " " THEN RStrip(SubSeq(s, 1, Len(s) - 1)) ELSE s

\* str.strip()
Strip(s) == RStrip(LStrip(s))

S_true == <<"t","r","u","e">>
S_false == <<"f","a","l","s","e">>

\* A JSON value: null, a boolean, a string or a list of strings.
JNull == [type |-> "null", b |-> FALSE, s |-> <<>>, l |-> <<>>]
JBool(x) == [type |-> "bool", b |-> x, s |-> <<>>, l |-> <<>>]
JStr(x) == [type |-> "str", b |-> FALSE, s |-> x, l |-> <<>>]
JList(x) == [type |-> "list", b |-> FALSE, s |-> <<>>, l |-> x]

\* Python truthiness of a JSON value
Truthy(v) ==
  CASE v.type = "null" -> FALSE
    [] v.type = "bool" -> v.b
    [] v.type = "str" -> v.s # <<>>
    [] v.type = "list" -> v.l # <<>>

\* dict.get(k): None when the key is absent
Get(json, k) == IF k \in DOMAIN json THEN json[k] ELSE JNull

Fields == {"languages", "category", "name", "url", "paid", "notes"}

\* ---------------------------------------------------------- request inputs
LangNames == {<<"g","o">>, <<"G","o">>}
CategoryNames == {<<"w","e","b">>, <<"W","e","b">>}

RECURSIVE SeqsUpTo(_, _)
SeqsUpTo(S, n) ==
  IF n = 0 THEN {<<>>}
  ELSE LET shorter == SeqsUpTo(S, n - 1)
       IN shorter \cup {Append(q, x) : q \in shorter, x \in S}

LangLists == SeqsUpTo(LangNames, MaxLangs)

PaidValues ==
  {JBool(TRUE), JBool(FALSE), JStr(S_false), JStr(<<"T","r","u","e">>)}

\* Bodies POST /resources lets through to create_resource.
CreateValues ==
  [f \in Fields |->
     CASE f = "name" -> {JStr(<<"a">>)}
       [] f = "url" -> {JStr(<<"u">>)}
       [] f = "category" -> {JStr(c) : c \in CategoryNames}
       [] f = "languages" -> {JList(l) : l \in LangLists}
       [] f = "paid" -> PaidValues
       [] f = "notes" -> {JStr(<<"n">>)}]

\* Bodies PUT /resources/<id> lets through to update_resource.
UpdateValues ==
  [f \in Fields |->
     CASE f = "name" -> {JStr(<<>>), JStr(<<"b">>)}
       [] f = "url" -> {JStr(<<>>), JStr(<<"v">>)}
       [] f = "category" -> {JStr(<<>>)} \cup {JStr(c) : c \in CategoryNames}
       [] f = "languages" -> {JList(l) : l \in LangLists}
       [] f = "paid" -> PaidValues
       [] f = "notes" -> {JStr(<<>>), JStr(<<"m">>)}]

\* The JSON objects with exactly the keys D, each value from values[key].
RECURSIVE PayloadsOver(_, _)
PayloadsOver(D, values) ==
  IF D = {} THEN {<<>>}
  ELSE LET f == CHOOSE x \in D : TRUE
       IN {j @@ (f :> v) : j \in PayloadsOver(D \ {f}, values), v \in values[f]}

CreatePayloads ==
  UNION {PayloadsOver({"name", "url", "category"} \cup D, CreateValues) :
           D \in SUBSET {"languages", "paid", "notes"}}

UpdatePayloads ==
  UNION {PayloadsOver(D, UpdateValues) :
           D \in {E \in SUBSET Fields : E # {} /\ Cardinality(E) <= MaxFields}}

\* Outcomes of db.session.commit() that the request does not decide
\* (a constraint the payload does not show, a lost connection).
DbFaults == {"none", "integrity", "error"}

\* Outcomes of a write to the search index.
IndexOutcomes == {"ok", "unreachable", "rejected", "error"}

\* ------------------------------------------------------------------- state
VARIABLES
  resources,    \* Resource rows; the id is the position
  languages,    \* names of the Language rows
  categories,   \* names of the Category rows
  index,        \* objectIDs the search index holds
  req,          \* the create/update request in flight
  response,     \* the last response sent
  workers,      \* vote/click requests in flight
  tally,        \* per counter: calls answered with success, calls that overlapped
  keys,         \* Key rows: [email, apikey]
  nextKey,      \* the key generator's position
  issued,       \* per email, the key values returned so far
  keyReply,     \* the last response of POST /apikey
  search        \* the last call to index.search and its response

vars == <<resources, languages, categories, index, req, response,
          workers, tally, keys, nextKey, issued, keyReply, search>>

writeVars == <<resources, languages, categories, index, req, response>>
voteVars == <<workers, tally>>
keyVars == <<keys, nextKey, issued, keyReply>>

\* ------------------------------------------------- entities and resolution
\* Language.key() / Category.key(): the lookup key of a row, its name with
\* the case folded.
key(name) == Lower(name)

\* {l.key(): l for l in rows}: one row per key; when two rows share a key
\* the one that comes last in the unordered query result wins.
KeyDicts(rows) ==
  LET ks == {key(n) : n \in rows}
  IN {d \in [ks -> rows] : \A k \in ks : key(d[k]) = k}

\* dict.get(name): the row found, or an entity built with that name.
Resolve(dict, name) ==
  IF name \in DOMAIN dict
  THEN [name |-> dict[name], new |-> FALSE]
  ELSE [name |-> name, new |-> TRUE]

\* get_attributes: langs, categ, and the names a constructor was called with.
\* The default argument Category(name=...) is built on every call.
get_attributes(json, language_dict, category_dict) ==
  LET supplied == IF Truthy(Get(json, "languages"))
                  THEN Get(json, "languages").l ELSE <<>>
      cat == Get(json, "category").s
      langs == [i \in DOMAIN supplied |-> Resolve(language_dict, supplied[i])]
  IN [langs |-> langs,
      categ |-> Resolve(category_dict, cat),
      builtLanguages |-> {langs[i].name : i \in {j \in DOMAIN langs : langs[j].new}},
      builtCategories |-> {cat}]

\* ------------------------------------------------------ the relational store
\* What a Boolean column makes of a value at flush: a boolean or NULL is
\* stored as it is; a string is not the handler's to decide: the type may
\* refuse it (the commit raises) or the database may parse its literal.
RaisedValue == [type |-> "raise", b |-> FALSE, s |-> <<>>, l |-> <<>>]

BoolColumn(v) ==
  IF v.type \in {"bool", "null"} THEN {v}
  ELSE {RaisedValue} \cup
       (IF Lower(Strip(v.s)) \in {S_true, S_false}
        THEN {JBool(Lower(Strip(v.s)) = S_true)} ELSE {})

\* The names of the entities of a resource that are not rows yet.
NewNames(entities) == {e.name : e \in {x \in entities : x.new}}

Range(f) == {f[i] : i \in DOMAIN f}

\* A unique-name violation among the rows a commit would insert.
Duplicates(entities, rows) ==
  \/ NewNames(Range(entities)) \cap rows # {}
  \/ \E i, j \in DOMAIN entities :
       i # j /\ entities[i].new /\ entities[j].new
             /\ entities[i].name = entities[j].name

Names(entities) == [i \in DOMAIN entities |-> entities[i].name]

\* db.session.commit() of the pending object: "ok", "integrity" or "error".
CommitResult(obj, fault, stored) ==
  IF fault # "none" THEN fault
  ELSE IF \/ Duplicates(obj.languages, languages)
          \/ Duplicates(<<obj.category>>, categories) THEN "integrity"
  ELSE IF stored = RaisedValue THEN "error"
  ELSE "ok"

\* The row a committed object leaves (what serialize reads back).
Row(obj, stored) ==
  [name |-> obj.name, url |-> obj.url, category |-> obj.category.name,
   languages |-> Names(obj.languages), paid |-> stored, notes |-> obj.notes,
   upvotes |-> obj.upvotes, downvotes |-> obj.downvotes,
   times_clicked |-> obj.times_clicked]

\* The session's object for a row (Resource.query.get).
Loaded(row) ==
  [name |-> row.name, url |-> row.url,
   category |-> [name |-> row.category, new |-> FALSE],
   languages |-> [i \in DOMAIN row.languages |->
                    [name |-> row.languages[i], new |-> FALSE]],
   paid |-> row.paid, notes |-> row.notes,
   upvotes |-> row.upvotes, downvotes |-> row.downvotes,
   times_clicked |-> row.times_clicked]

\* ------------------------------------------------------------ the handlers
Idle == [pc |-> "idle"]
\* The handler has returned; the request context is not yet torn down.
Returned == [pc |-> "teardown"]
NoResponse == [status |-> 0, data |-> <<>>, op |-> "none", id |-> 0,
               committed |-> FALSE, mirror |-> "none"]

Respond(status, data, op, id, committed, mirror) ==
  [status |-> status, data |-> data, op |-> op, id |-> id,
   committed |-> committed, mirror |-> mirror]

\* create_resource up to the commit: the Resource object handed to the session.
NewResource(json, attrs) ==
  [name |-> Get(json, "name"), url |-> Get(json, "url"),
   category |-> attrs.categ, languages |-> attrs.langs,
   paid |-> Get(json, "paid"), notes |-> Get(json, "notes"),
   upvotes |-> 0, downvotes |-> 0, times_clicked |-> 0]

\* POST /resources -> create_resource: get_attributes and Resource(...).
\* The request is authenticated and its body passed validate_resource.
PostResource ==
  /\ req.pc = "idle"
  /\ Len(resources) < MaxResources
  /\ \E json \in CreatePayloads, ld \in KeyDicts(languages),
        cd \in KeyDicts(categories) :
       LET attrs == get_attributes(json, ld, cd)
       IN req' = [pc |-> "commit", op |-> "create", id |-> Len(resources) + 1,
                  json |-> json, attrs |-> attrs,
                  seenLanguages |-> languages, seenCategories |-> categories,
                  old |-> <<>>, obj |-> NewResource(json, attrs),
                  index_attrs |-> {}, committed |-> FALSE]
  /\ response' = NoResponse
  /\ UNCHANGED <<resources, languages, categories, index>>

\* "false" and "true" in any case become their bool (update_resource).
CoercePaid(paid) ==
  IF paid.type = "str" /\ Lower(paid.s) \in {S_true, S_false}
  THEN JBool(Strip(Lower(paid.s)) = S_true)
  ELSE paid

\* Variant: notes is replaced, not merged (absent notes become null).
ApplyUpdateReplace(cur, json, attrs) ==
  [name |-> IF Truthy(Get(json, "name")) THEN Get(json, "name") ELSE cur.name,
   url |-> IF Truthy(Get(json, "url")) THEN Get(json, "url") ELSE cur.url,
   category |-> IF Truthy(Get(json, "category")) THEN attrs.categ
                ELSE cur.category,
   languages |-> IF Truthy(Get(json, "languages")) THEN attrs.langs
                 ELSE cur.languages,
   paid |-> IF "paid" \in DOMAIN json THEN CoercePaid(json["paid"])
            ELSE cur.paid,
   notes |-> Get(json, "notes"),
   upvotes |-> cur.upvotes, downvotes |-> cur.downvotes,
   times_clicked |-> cur.times_clicked]

\* update_resource, the assignments to updateable_resource.
ApplyUpdate(cur, json, attrs) ==
  [name |-> IF Truthy(Get(json, "name")) THEN Get(json, "name") ELSE cur.name,
   url |-> IF Truthy(Get(json, "url")) THEN Get(json, "url") ELSE cur.url,
   category |-> IF Truthy(Get(json, "category")) THEN attrs.categ
                ELSE cur.category,
   languages |-> IF Truthy(Get(json, "languages")) THEN attrs.langs
                 ELSE cur.languages,
   paid |-> IF "paid" \in DOMAIN json THEN CoercePaid(json["paid"])
            ELSE cur.paid,
   notes |-> IF "notes" \in DOMAIN json THEN json["notes"] ELSE cur.notes,
   upvotes |-> cur.upvotes, downvotes |-> cur.downvotes,
   times_clicked |-> cur.times_clicked]

\* update_resource, the keys put into index_object beside objectID.
IndexAttrs(json) ==
  {f \in {"languages", "category", "name", "url"} : Truthy(Get(json, f))}
    \cup ({"paid", "notes"} \cap DOMAIN json)

\* PUT /resources/<id> -> update_resource up to the commit. A missing
\* resource is redirected to /404, answered by the 404 handler.
PutResource ==
  /\ req.pc = "idle"
  /\ \E id \in 1..MaxResources, json \in UpdatePayloads,
        ld \in KeyDicts(languages), cd \in KeyDicts(categories) :
       IF id \notin DOMAIN resources
       THEN /\ response' = Respond(404, <<>>, "update", id, FALSE, "none")
            /\ req' = Returned
       ELSE LET attrs == get_attributes(json, ld, cd)
            IN /\ req' = [pc |-> "commit", op |-> "update", id |-> id,
                          json |-> json, attrs |-> attrs,
                          seenLanguages |-> languages,
                          seenCategories |-> categories,
                          old |-> <<resources[id]>>,
                          obj |-> ApplyUpdate(Loaded(resources[id]), json, attrs),
                          index_attrs |-> IndexAttrs(json), committed |-> FALSE]
               /\ response' = NoResponse
  /\ UNCHANGED <<resources, languages, categories, index>>

\* Variant: the index write is reached whatever the commit did.
AfterCommitAlways(result) == "mirror"

\* Where a handler goes once db.session.commit() has returned or raised:
\* on to the index write, or out through an except clause.
AfterCommit(result) == IF result = "ok" THEN "mirror" ELSE "respond"

CommitStatus(result) == IF result = "integrity" THEN 422 ELSE 500

\* The tables after the pending object is flushed.
Flush(obj, stored, id) ==
  /\ resources' = IF id \in DOMAIN resources
                  THEN [resources EXCEPT ![id] = Row(obj, stored)]
                  ELSE Append(resources, Row(obj, stored))
  /\ languages' = languages \cup NewNames(Range(obj.languages))
  /\ categories' = categories \cup NewNames({obj.category})

Commit(op) ==
  /\ req.pc = "commit"
  /\ req.op = op
  /\ \E fault \in DbFaults, stored \in BoolColumn(req.obj.paid) :
       LET result == CommitResult(req.obj, fault, stored)
       IN /\ IF result = "ok" THEN Flush(req.obj, stored, req.id)
             ELSE UNCHANGED <<resources, languages, categories>>
          /\ IF AfterCommit(result) = "mirror"
             THEN /\ req' = [req EXCEPT !.pc = "mirror",
                                        !.committed = (result = "ok")]
                  /\ response' = response
             ELSE /\ req' = Returned
                  /\ response' = Respond(CommitStatus(result), <<>>, op,
                                         req.id, FALSE, "none")
  /\ UNCHANGED index

\* create_resource: session.add and commit
CreateCommit == Commit("create")

\* update_resource: commit
UpdateCommit == Commit("update")

\* create_resource: the except clauses around index.save_object
CreateMirrorStatus(outcome) == IF outcome = "error" THEN 500 ELSE 200

\* Variant: an index failure is not swallowed.
UpdateMirrorStatusStrict(outcome) == IF outcome = "ok" THEN 200 ELSE 500

\* update_resource: the inner try around index.partial_update_object
UpdateMirrorStatus(outcome) == IF outcome = "error" THEN 500 ELSE 200

\* The status a handler answers with after its index write.
MirrorStatus(op, outcome) ==
  IF op = "create" THEN CreateMirrorStatus(outcome)
  ELSE UpdateMirrorStatus(outcome)

Mirror(op) ==
  /\ req.pc = "mirror"
  /\ req.op = op
  /\ \E outcome \in IndexOutcomes :
       /\ index' = IF outcome = "ok" THEN index \cup {req.id} ELSE index
       /\ response' =
            Respond(MirrorStatus(op, outcome),
                    IF MirrorStatus(op, outcome) = 200 /\ req.id \in DOMAIN resources
                    THEN <<resources[req.id]>> ELSE <<>>,
                    op, req.id, req.committed, outcome)
  /\ req' = Returned
  /\ UNCHANGED <<resources, languages, categories>>

\* create_resource: index.save_object and the response
CreateMirror == Mirror("create")

\* update_resource: index.partial_update_object and the response
UpdateMirror == Mirror("update")

\* teardown_request: the session is removed and the request is over; the
\* response has gone to the caller.
teardown_request ==
  /\ req.pc = "teardown"
  /\ req' = Idle
  /\ response' = NoResponse
  /\ UNCHANGED <<resources, languages, categories, index>>

WriteInit ==
  /\ resources = <<>>
  /\ languages = {<<"g","o">>}
  /\ categories = {<<"w","e","b">>}
  /\ index = {}
  /\ req = Idle
  /\ response = NoResponse

VotesIdle ==
  /\ workers = <<>>
  /\ tally = <<>>

KeysIdle ==
  /\ keys = {}
  /\ nextKey = 1
  /\ issued = <<>>
  /\ keyReply = <<>>

SearchIdle == search = [pending |-> FALSE, answered |-> FALSE]

otherVars == <<voteVars, keyVars, search>>

Init ==
  /\ WriteInit
  /\ VotesIdle
  /\ KeysIdle
  /\ SearchIdle

Next ==
  \/ PostResource /\ UNCHANGED otherVars
  \/ CreateCommit /\ UNCHANGED otherVars
  \/ CreateMirror /\ UNCHANGED otherVars
  \/ PutResource /\ UNCHANGED otherVars
  \/ UpdateCommit /\ UNCHANGED otherVars
  \/ UpdateMirror /\ UNCHANGED otherVars
  \/ teardown_request /\ UNCHANGED otherVars

Spec == Init /\ [][Next]_vars

\* ------------------------------------------------------- votes and clicks
CounterFields == {"upvotes", "downvotes", "times_clicked"}

\* A row as create_resource leaves it.
SampleRow ==
  [name |-> JStr(<<"a">>), url |-> JStr(<<"u">>), category |-> <<"w","e","b">>,
   languages |-> <<>>, paid |-> JBool(FALSE), notes |-> JNull,
   upvotes |-> 0, downvotes |-> 0, times_clicked |-> 0]

\* overlapped: another request held the same counter while this one did.
IdleWorker == [pc |-> "idle", id |-> 0, field |-> "none", pending |-> 0,
               status |-> 0, overlapped |-> FALSE]

Started == Cardinality({w \in DOMAIN workers : workers[w].pc = "loaded"})
           + tally.answered

\* Another request holds the same counter of the same row, read and not
\* yet committed.
Overlaps(w, id, field) ==
  \E v \in DOMAIN workers :
    v # w /\ workers[v].pc = "loaded" /\ workers[v].id = id
          /\ workers[v].field = field

\* Variant: the counter is raised by two.
IncrementTwice(initial_count) == initial_count + 2

\* setattr(resource, field, initial_count + 1)
Increment(initial_count) == initial_count + 1

\* Variant: an atomic increment in the database (SET c = c + 1).
WrittenAtomic(row_value, pending) == row_value + 1

\* What db.session.commit() writes to the column: the value set on the
\* session's object, whatever the row holds by now.
Written(row_value, pending) == pending

\* Resource.query.get, then getattr and setattr on the object.
Load(w, id, field) ==
  /\ workers[w].pc = "idle"
  /\ Started < MaxCalls
  /\ IF id \notin DOMAIN resources
     THEN /\ workers' = [workers EXCEPT ![w] = [IdleWorker EXCEPT !.status = 404]]
          /\ tally' = [tally EXCEPT !.answered = @ + 1]
     ELSE /\ workers' =
               [v \in DOMAIN workers |->
                  IF v = w
                  THEN [pc |-> "loaded", id |-> id, field |-> field,
                        pending |-> Increment(resources[id][field]),
                        status |-> 0, overlapped |-> Overlaps(w, id, field)]
                  ELSE IF /\ workers[v].pc = "loaded" /\ workers[v].id = id
                          /\ workers[v].field = field
                  THEN [workers[v] EXCEPT !.overlapped = TRUE]
                  ELSE workers[v]]
          /\ tally' = IF Overlaps(w, id, field)
                      THEN [tally EXCEPT !.raced = @ \cup {<<id, field>>}]
                      ELSE tally
  /\ UNCHANGED resources

\* db.session.commit() and the response.
Store(w, field) ==
  /\ workers[w].pc = "loaded"
  /\ workers[w].field = field
  /\ LET id == workers[w].id
     IN /\ resources' = [resources EXCEPT ![id][field] =
                            Written(resources[id][field], workers[w].pending)]
        /\ tally' = [tally EXCEPT !.answered = @ + 1,
                                  !.calls[<<id, field>>] = @ + 1]
  /\ workers' = [workers EXCEPT ![w] = [IdleWorker EXCEPT !.status = 200]]

\* update_votes up to the commit
UpdateVotesLoad ==
  \E w \in DOMAIN workers, id \in 1..(Len(resources) + 1),
     vote_direction \in {"upvotes", "downvotes"} : Load(w, id, vote_direction)

\* update_votes: commit and response
UpdateVotesCommit ==
  \E w \in DOMAIN workers, vote_direction \in {"upvotes", "downvotes"} :
     Store(w, vote_direction)

\* add_click up to the commit
AddClickLoad ==
  \E w \in DOMAIN workers, id \in 1..(Len(resources) + 1) :
     Load(w, id, "times_clicked")

\* add_click: commit and response
AddClickCommit == \E w \in DOMAIN workers : Store(w, "times_clicked")

writeIdle == <<languages, categories, index, req, response>>

InitVotes ==
  /\ resources = <<SampleRow>>
  /\ languages = {}
  /\ categories = {<<"w","e","b">>}
  /\ index = {}
  /\ req = Idle
  /\ response = NoResponse
  /\ workers = [w \in 1..MaxWorkers |-> IdleWorker]
  /\ tally = [answered |-> 0, raced |-> {},
              calls |-> [c \in {1} \X CounterFields |-> 0]]
  /\ KeysIdle
  /\ SearchIdle

NextVotes ==
  \/ UpdateVotesLoad /\ UNCHANGED <<writeIdle, keyVars, search>>
  \/ UpdateVotesCommit /\ UNCHANGED <<writeIdle, keyVars, search>>
  \/ AddClickLoad /\ UNCHANGED <<writeIdle, keyVars, search>>
  \/ AddClickCommit /\ UNCHANGED <<writeIdle, keyVars, search>>

SpecVotes == InitVotes /\ [][NextVotes]_vars

\* ----------------------------------------------------------------- /apikey
Emails == {"ann@oc", "bob@oc", "cyd@oc"}

RECURSIVE Answered(_)
Answered(S) ==
  IF S = {} THEN 0
  ELSE LET e == CHOOSE x \in S : TRUE IN Len(issued[e]) + Answered(S \ {e})

\* Key.query.filter_by(email=email): the rows of that email
KeysOf(email) == {k \in keys : k.email = email}

\* utils.create_new_apikey: a fresh key is generated and saved for the
\* email, and returned.
create_new_apikey(email) ==
  /\ keys' = keys \cup {[email |-> email, apikey |-> nextKey]}
  /\ nextKey' = nextKey + 1
  /\ issued' = [issued EXCEPT ![email] = Append(@, nextKey)]
  /\ keyReply' = [status |-> 200, email |-> email, apikey |-> nextKey]

\* Variant: a key is made without looking at the lookup.
NeedsNewKeyAlways(found) == TRUE

\* The handler's branch on the lookup: a key is made only when none is found.
NeedsNewKey(found) == found = {}

\* POST /apikey
apikey ==
  /\ Answered(Emails) < MaxIssues
  /\ \E email \in Emails, is_oc_member \in BOOLEAN, fault \in BOOLEAN :
       IF ~is_oc_member
       THEN /\ keyReply' = [status |-> 401, email |-> email, apikey |-> 0]
            /\ UNCHANGED <<keys, nextKey, issued>>
       ELSE IF fault
       THEN /\ keyReply' = [status |-> 500, email |-> email, apikey |-> 0]
            /\ UNCHANGED <<keys, nextKey, issued>>
       ELSE IF NeedsNewKey(KeysOf(email))
       THEN create_new_apikey(email)
       ELSE \E service_api_key \in KeysOf(email) :
              /\ keyReply' = [status |-> 200, email |-> email,
                              apikey |-> service_api_key.apikey]
              /\ issued' = [issued EXCEPT ![email] =
                              Append(@, service_api_key.apikey)]
              /\ UNCHANGED <<keys, nextKey>>

InitKeys ==
  /\ WriteInit
  /\ VotesIdle
  /\ keys = {}
  /\ nextKey = 1
  /\ issued = [e \in Emails |-> <<>>]
  /\ keyReply = [status |-> 0, email |-> "", apikey |-> 0]
  /\ SearchIdle

NextKeys == apikey /\ UNCHANGED <<writeVars, voteVars, search>>

SpecKeys == InitKeys /\ [][NextKeys]_vars

\* ----------------------------------------------------------------- /search
\* Config.RESOURCE_PAGINATOR: the default and the largest page size, scaled
\* down.
PerPage == 2
MaxPageSize == 3

RECURSIVE Join(_, _)
\* sep.join(parts)
Join(sep, parts) ==
  IF parts = <<>> THEN <<>>
  ELSE IF Len(parts) = 1 THEN parts[1]
  ELSE parts[1] \o sep \o Join(sep, Tail(parts))

S_paid1 == <<"p","a","i","d","=","1">>
S_paid0 == <<"p","a","i","d","=","0">>
S_category == <<"c","a","t","e","g","o","r","y",":">>
S_languages == <<"l","a","n","g","u","a","g","e","s",":">>
S_OR == <<" ","O","R"," ">>
S_AND == <<"A","N","D">>

\* request.args of GET /search
SearchArgs ==
  [paid : {JNull, JStr(S_true), JStr(<<"F","a","l","s","e">>), JStr(<<"x">>)},
   category : {JNull, JStr(<<"w","e","b">>)},
   languages : LangLists,
   page : {0, 1},
   page_size : {<<>>} \cup {<<n>> : n \in 1..(MaxPageSize + 1)}]

\* request.args.get('page_size', Config.RESOURCE_PAGINATOR.per_page, int)
PageSize(args) == IF args.page_size = <<>> THEN PerPage ELSE args.page_size[1]

PaidFilter(paid) ==
  IF paid.type = "str"
  THEN IF Lower(paid.s) = S_true THEN <<S_paid1>>
       ELSE IF Lower(paid.s) = S_false THEN <<S_paid0>>
       ELSE <<>>
  ELSE <<>>

CategoryFilter(search_category) ==
  IF search_category.type = "str"
  THEN <<S_category \o search_category.s>>
  ELSE <<>>

\* getlist always answers with a list, so the clause is always appended.
LanguagesFilter(search_languages) ==
  <<<<"(", " ">>
      \o Join(S_OR, [i \in DOMAIN search_languages |->
                       S_languages \o search_languages[i]])
      \o <<" ", ")">> >>

\* search_results: the filters list
Filters(args) ==
  PaidFilter(args.paid) \o CategoryFilter(args.category)
    \o LanguagesFilter(args.languages)

\* GET /search -> search_results, on the request received
search_results ==
  /\ search.pending
  /\ \E answer \in {<<"raise", 0>>} \cup ({"pages"} \X (0..2)) :
       LET args == search.args
       IN search' =
            [pending |-> FALSE, answered |-> TRUE, args |-> args,
             clauses |-> Filters(args),
             filters |-> Join(S_AND, Filters(args)),
             page |-> args.page,
             hitsPerPage |-> PageSize(args),
             status |-> IF answer[1] = "raise" THEN 500
                        ELSE IF args.page >= answer[2] THEN 404 ELSE 200]

InitSearch ==
  /\ WriteInit
  /\ VotesIdle
  /\ KeysIdle
  /\ search \in [pending : {TRUE}, answered : {FALSE}, args : SearchArgs]

NextSearch == search_results /\ UNCHANGED <<writeVars, voteVars, keyVars>>

SpecSearch == InitSearch /\ [][NextSearch]_vars

\* ================================================================== claims

MirrorFailed(r) == r.mirror \in {"unreachable", "rejected"}

\* ---- C1: a failed index write after a successful commit still answers 200
\* with the resource, and the row is in the relational store.
C1_MirrorFailureStillSucceeds ==
  (response.committed /\ MirrorFailed(response)) =>
     /\ response.status = 200
     /\ response.id \in DOMAIN resources
     /\ response.data = <<resources[response.id]>>

C1_Witness ==
  /\ response.committed
  /\ MirrorFailed(response)
  /\ response.op = "update"
  /\ response.status = 200
  /\ response.data # <<>>
  /\ response.data[1].name = JStr(<<"b">>)

\* ---- C2: the index is written only after this request's commit succeeded;
\* a request answered 404 or 422, or whose commit raised, wrote nothing to it.
C2_MirrorOnlyAfterCommit ==
  /\ req.pc = "mirror" => req.committed
  /\ response.mirror # "none" => response.committed
  /\ response.status \in {404, 422} => response.mirror = "none"

C2_Witness ==
  /\ response.op = "create"
  /\ response.mirror = "ok"
  /\ response.committed
  /\ response.id \in index

Submitted(json, f) ==
  CASE f = "languages" -> json[f].l
    [] f = "category" -> json[f].s
    [] OTHER -> json[f]

Updating == req.pc = "mirror" /\ req.op = "update" /\ req.committed

\* ---- C3 as stated: after update_resource has committed, every absent
\* field is unchanged and every present field equals the submitted value.
C3_PresentFieldsExact ==
  Updating =>
    \A f \in Fields :
      IF f \in DOMAIN req.json
      THEN resources[req.id][f] = Submitted(req.json, f)
      ELSE resources[req.id][f] = req.old[1][f]

SameUpToCase(stored, submitted) ==
  /\ Len(stored) = Len(submitted)
  /\ \A i \in DOMAIN stored : Lower(stored[i]) = Lower(submitted[i])

\* ---- C3 amended: absent fields are unchanged; paid and notes, when present,
\* take the submitted value (paid "true"/"false" in any case as its boolean);
\* name and url take a non-empty submitted value; languages and category take
\* the entities resolved for a non-empty submitted value, whose names equal
\* the submitted names up to case; a present but empty languages, category,
\* name or url leaves the field unchanged.
C3_PartialUpdate ==
  Updating =>
    LET json == req.json
        row == resources[req.id]
        was == req.old[1]
    IN /\ \A f \in {"name", "url"} :
            row[f] = IF Truthy(Get(json, f)) THEN json[f] ELSE was[f]
       /\ IF Truthy(Get(json, "languages"))
          THEN SameUpToCase(row.languages, json["languages"].l)
          ELSE row.languages = was.languages
       /\ IF Truthy(Get(json, "category"))
          THEN Lower(row.category) = Lower(json["category"].s)
          ELSE row.category = was.category
       /\ row.paid = IF "paid" \in DOMAIN json
                     THEN (IF /\ json["paid"].type = "str"
                              /\ Lower(json["paid"].s) \in {S_true, S_false}
                           THEN JBool(Lower(json["paid"].s) = S_true)
                           ELSE json["paid"])
                     ELSE was.paid
       /\ row.notes = IF "notes" \in DOMAIN json THEN json["notes"]
                      ELSE was.notes
       /\ \A f \in CounterFields : row[f] = was[f]

C3_Witness ==
  /\ Updating
  /\ DOMAIN req.json = {"name", "paid"}
  /\ req.json["name"] = JStr(<<>>)
  /\ req.json["paid"] = JStr(S_false)
  /\ resources[req.id].name = JStr(<<"a">>)
  /\ resources[req.id].paid = JBool(FALSE)
  /\ req.old[1].paid = JBool(TRUE)

\* ---- C4: every successful POST /apikey for an email returns the same key,
\* and the key store holds exactly one key for an email that was issued one.
C4_IssuanceIdempotent ==
  \A e \in Emails :
    /\ \A i, j \in DOMAIN issued[e] : issued[e][i] = issued[e][j]
    /\ Cardinality(KeysOf(e)) <= 1
    /\ issued[e] # <<>> => Cardinality(KeysOf(e)) = 1

C4_Witness ==
  /\ Len(issued["ann@oc"]) >= 2
  /\ Len(issued["bob@oc"]) >= 1
  /\ keyReply.status = 200
  /\ keyReply.email = "ann@oc"
  /\ keyReply.apikey = issued["ann@oc"][1]

\* ---- C5: a vote or click request that no other request on the same
\* counter overlapped raises the counter by exactly 1 and is answered 200;
\* so a counter whose calls never overlapped holds the number of its calls.
C5_SequentialCallsCount ==
  /\ [][\A w \in DOMAIN workers :
          (/\ workers[w].pc = "loaded" /\ workers'[w].pc = "idle"
           /\ ~workers[w].overlapped) =>
             /\ workers'[w].status = 200
             /\ resources'[workers[w].id][workers[w].field]
                  = resources[workers[w].id][workers[w].field] + 1]_vars
  /\ [](\A c \in DOMAIN tally.calls :
          c \notin tally.raced => resources[c[1]][c[2]] = tally.calls[c])

C5_Witness ==
  /\ <<1, "upvotes">> \in DOMAIN tally.calls
  /\ tally.raced = {}
  /\ tally.calls[<<1, "upvotes">>] = 2
  /\ resources[1].upvotes = 2
  /\ tally.calls[<<1, "times_clicked">>] = 1
  /\ resources[1].times_clicked = 1

\* ---- C9: a vote or click commit writes the value computed from the read,
\* whatever the row holds by then; two requests that both read before either
\* commits are both answered 200 and leave the counter one higher, not two.
C9_CommitWritesValueFromRead ==
  [][\A w \in DOMAIN workers :
       (workers[w].pc = "loaded" /\ workers'[w].pc = "idle") =>
          /\ workers'[w].status = 200
          /\ resources'[workers[w].id][workers[w].field] = workers[w].pending]_vars

C9_Witness ==
  /\ <<1, "upvotes">> \in DOMAIN tally.calls
  /\ tally.calls[<<1, "upvotes">>] = 2
  /\ tally.answered = 2
  /\ resources[1].upvotes = 1
  /\ \A w \in DOMAIN workers : workers[w].pc = "idle" /\ workers[w].status = 200

Resolving == req.pc \in {"commit", "mirror"}

KnownUpToCase(name, rows) == \E r \in rows : Lower(r) = Lower(name)

\* ---- C6 as stated: a supplied language or category name that equals an
\* existing row's name ignoring case resolves to that row; an entity is
\* constructed only when no such row exists.
C6_CaseInsensitiveReuse ==
  Resolving =>
    /\ \A i \in DOMAIN req.attrs.langs :
         LET name == Get(req.json, "languages").l[i]
         IN req.attrs.langs[i].new <=> ~KnownUpToCase(name, req.seenLanguages)
    /\ "category" \in DOMAIN req.json =>
         (req.attrs.categ.new <=>
            ~KnownUpToCase(req.json["category"].s, req.seenCategories))

CoercedPaid(json) ==
  IF Get(json, "paid").type = "str"
  THEN JBool(Lower(Get(json, "paid").s) = S_true)
  ELSE Get(json, "paid")

\* ---- C7 as stated: the resource create_resource persists and returns has
\* the submitted fields, with a paid string "true"/"false" as its boolean,
\* coerced before it reaches the store.
C7_CreateCoercesPaid ==
  /\ (req.pc = "commit" /\ req.op = "create") =>
        req.obj.paid = CoercedPaid(req.json)
  /\ (req.pc = "mirror" /\ req.op = "create" /\ req.committed) =>
        /\ resources[req.id].paid = CoercedPaid(req.json)
        /\ resources[req.id].name = Get(req.json, "name")
        /\ resources[req.id].url = Get(req.json, "url")
        /\ resources[req.id].notes = Get(req.json, "notes")

\* ---- C8 as stated: the page size handed to the index never exceeds the
\* configured maximum.
C8_PageSizeClamped == search.answered => search.hitsPerPage <= MaxPageSize

HasClause(first) ==
  \E i \in DOMAIN search.clauses : Head(search.clauses[i]) = first

\* ---- C10 as stated: the filter expression has a paid clause exactly when
\* paid is "true"/"false" in any case, a category clause exactly when a
\* category is supplied, a languages clause exactly when a language is
\* supplied, and no clause when no filter parameter is supplied.
C10_ClausesMatchSupplied ==
  search.answered =>
    LET args == search.args
        paidGiven == /\ args.paid.type = "str"
                     /\ Lower(args.paid.s) \in {S_true, S_false}
        categoryGiven == args.category.type = "str"
        languagesGiven == args.languages # <<>>
    IN /\ HasClause("p") <=> paidGiven
       /\ HasClause("c") <=> categoryGiven
       /\ HasClause("(") <=> languagesGiven
       /\ (~paidGiven /\ ~categoryGiven /\ ~languagesGiven) =>
            (search.clauses = <<>> /\ search.filters = <<>>)

====
